---- MODULE Spec2Model ----
(***************************************************************************)
(* Model of src/index.js: an Express server that opens a PostgreSQL and a  *)
(* Redis connection at startup (neither awaited, neither with an error     *)
(* handler) and answers GET / with the result of INCR on key "visits".     *)
(*                                                                         *)
(* The runtime is Node.js 24 (Dockerfile, FROM node:24-alpine): a promise  *)
(* rejection nobody handles and an 'error' event nobody listens to both    *)
(* terminate the process.  The Redis client is one connection: commands    *)
(* are written and answered in the order they were issued.                 *)
(***************************************************************************)
EXTENDS Integers, Sequences, FiniteSets, TLC

(* ------------------------------ bounds -------------------------------- *)
\* number of requests to GET / that arrive during one run
MaxRequests == 3
\* value of "visits" a previous run may have left in the cache
MaxPrior == 9

(* --------------------------- configuration ---------------------------- *)
\* process.env entries are optional strings: <<>> is undefined, <<s>> is s
EnvNames == {"DB_HOST", "DB_USER", "DB_PASSWORD", "DB_NAME", "REDIS_URL"}

\* an override value for each variable, different from the built-in default
Override ==
  [n \in EnvNames |->
     CASE n = "DB_HOST"     -> "pg.internal"
       [] n = "DB_USER"     -> "app"
       [] n = "DB_PASSWORD" -> "s3cret"
       [] n = "DB_NAME"     -> "labs"
       [] n = "REDIS_URL"   -> "redis://other:6380"]

EnvValues(n) == {<< >>, <<"">>, <<Override[n]>>}

\* the environment of the app service in docker-compose.yml: REDIS_URL is
\* set, none of the DB_* variables is (DATABASE_URL is not read by the code)
ComposeEnv ==
  [n \in EnvNames |-> IF n = "REDIS_URL" THEN <<"redis://cache:6379">> ELSE << >>]

\* JavaScript a || b on an optional string: undefined and "" are falsy
Or(a, b) == IF a # << >> /\ a[1] # "" THEN a[1] ELSE b

\* new Client({...})
PgConfigOf(e) ==
  [host     |-> Or(e["DB_HOST"], "db"),
   user     |-> Or(e["DB_USER"], "postgres"),
   password |-> Or(e["DB_PASSWORD"], "password"),
   database |-> Or(e["DB_NAME"], "postgres")]

\* redis.createClient({...})
RedisConfigOf(e) == [url |-> "redis://cache:6379"]

(* ----------------------------- formatting ----------------------------- *)
\* the text before the number in the template literal, one entry per
\* character; "U+1F680" stands for the rocket emoji
Greeting ==
  <<"H", "e", "l", "l", "o", " ", "U+1F680", " ",
    "V", "i", "s", "i", "t", "s", ":", " ">>

DigitChars == <<"0", "1", "2", "3", "4", "5", "6", "7", "8", "9">>

\* mutation: the digits come out least significant first
RECURSIVE NumberToStringReversed(_)
NumberToStringReversed(n) ==
  IF n < 10 THEN <<DigitChars[n + 1]>>
  ELSE <<DigitChars[(n % 10) + 1]>> \o NumberToStringReversed(n \div 10)

\* Number -> decimal string, as ${visits} does for a non-negative integer
RECURSIVE NumberToString(_)
NumberToString(n) ==
  IF n < 10 THEN <<DigitChars[n + 1]>>
  ELSE NumberToString(n \div 10) \o <<DigitChars[(n % 10) + 1]>>

\* mutation: the value before the increment is shown
TemplatePreIncrement(visits) == Greeting \o NumberToString(visits - 1)

\* `Hello <rocket> Visits: ${visits}`
Template(visits) == Greeting \o NumberToString(visits)

\* res.send(<string>): Express answers 200 and, for a String body with no
\* Content-Type set, labels it text/html
Send(r, body) ==
  [req |-> r, status |-> 200, type |-> "text/html", body |-> body]

(* ------------------------------- cache -------------------------------- *)
CounterKey == "visits"

\* mutation: an existing counter is returned unchanged
INCRStuck(s, k) ==
  IF k \in DOMAIN s THEN s ELSE s @@ (k :> 1)

\* mutation: a missing key is created at 0 instead of being counted
INCRMissingAsZero(s, k) ==
  IF k \in DOMAIN s THEN [s EXCEPT ![k] = @ + 1] ELSE s @@ (k :> 0)

\* Redis INCR: a missing key counts as 0; the new value is stored
INCR(s, k) ==
  IF k \in DOMAIN s THEN [s EXCEPT ![k] = @ + 1] ELSE s @@ (k :> 1)

\* mutation: the command is queued twice
incrTwice(q, key, r) ==
  Append(Append(q, [op |-> "INCR", key |-> key, req |-> r]),
         [op |-> "INCR", key |-> key, req |-> r])

\* redisClient.incr(key) on behalf of request r: one INCR command is put
\* on the client's command queue
incr(q, key, r) == Append(q, [op |-> "INCR", key |-> key, req |-> r])

(* ------------------------------- state -------------------------------- *)
VARIABLES
  env,          \* process.env
  pc,           \* index of the next step of the module's top-level code
  proc,         \* "running", "crashed" (exited on its own) or "killed"
  listening,    \* app.listen has been called
  startup,      \* the startup steps taken so far, in order
  pgConfig,     \* options of pgClient: << >> before construction, else <<cfg>>
  pg,           \* "idle", "connecting", "connected", "failed"
  redisConfig,  \* options of redisClient, as pgConfig
  redis,        \* "idle", "connecting", "ready", "failed"
  toSend,       \* commands the client holds until the socket is ready
  wire,         \* commands written to the socket, not yet executed
  replies,      \* replies on their way back, in order
  store,        \* the cache's keyspace: key -> integer
  prior,        \* value of "visits" when the process started (0: key absent)
  requests,     \* request id -> "none", "pending", "done"
  arrived,      \* number of requests whose handler has run
  overlap,      \* two requests have been in flight at the same time
  issued,       \* every command ever handed to the client, in order
  executed,     \* request ids in the order the cache executed their INCR
  responses     \* the responses sent, in order

vars == <<env, pc, proc, listening, startup, pgConfig, pg, redisConfig, redis,
          toSend, wire, replies, store, prior, requests, arrived, overlap,
          issued, executed, responses>>

ReqIds == 1..MaxRequests

\* mutation: the server listens before the connections are opened
StartupStepsListenFirst ==
  <<"app.listen", "pgClient.connect", "redisClient.connect">>

\* the order of the top-level statements of index.js
StartupSteps == <<"pgClient.connect", "redisClient.connect", "app.listen">>

MainDone == pc > Len(StartupSteps)

StepIs(s) == pc <= Len(StartupSteps) /\ StartupSteps[pc] = s

InitCommon ==
  /\ pc = 1
  /\ proc = "running"
  /\ listening = FALSE
  /\ startup = << >>
  /\ pgConfig = << >>
  /\ pg = "idle"
  /\ redisConfig = << >>
  /\ redis = "idle"
  /\ toSend = << >>
  /\ wire = << >>
  /\ replies = << >>
  /\ prior \in {0, MaxPrior}
  /\ store = IF prior = 0 THEN << >> ELSE (CounterKey :> prior)
  /\ requests = [r \in ReqIds |-> "none"]
  /\ arrived = 0
  /\ overlap = FALSE
  /\ issued = << >>
  /\ executed = << >>
  /\ responses = << >>

Init == env = ComposeEnv /\ InitCommon

(* --------------------------- startup steps ---------------------------- *)
\* lines 7-14: construct pgClient from the environment, start connecting
PgStart ==
  /\ proc = "running" /\ StepIs("pgClient.connect")
  /\ pgConfig' = <<PgConfigOf(env)>>
  /\ pg' = "connecting"
  /\ startup' = Append(startup, "pgClient.connect")
  /\ pc' = pc + 1
  /\ UNCHANGED <<env, proc, listening, redisConfig, redis, toSend, wire,
                 replies, store, prior, requests, arrived, overlap, issued,
                 executed, responses>>

\* lines 16-19: construct redisClient, start connecting
RedisStart ==
  /\ proc = "running" /\ StepIs("redisClient.connect")
  /\ redisConfig' = <<RedisConfigOf(env)>>
  /\ redis' = "connecting"
  /\ startup' = Append(startup, "redisClient.connect")
  /\ pc' = pc + 1
  /\ UNCHANGED <<env, proc, listening, pgConfig, pg, toSend, wire, replies,
                 store, prior, requests, arrived, overlap, issued, executed,
                 responses>>

\* lines 21-26: register the route and listen on port 3000
Listen ==
  /\ proc = "running" /\ StepIs("app.listen")
  /\ listening' = TRUE
  /\ startup' = Append(startup, "app.listen")
  /\ pc' = pc + 1
  /\ UNCHANGED <<env, proc, pgConfig, pg, redisConfig, redis, toSend, wire,
                 replies, store, prior, requests, arrived, overlap, issued,
                 executed, responses>>

(* ------------------------ connection outcomes ------------------------- *)
\* Events are delivered only after the top-level code has run to completion.

PgConnected ==
  /\ proc = "running" /\ MainDone /\ pg = "connecting"
  /\ pg' = "connected"
  /\ UNCHANGED <<env, pc, proc, listening, startup, pgConfig, redisConfig,
                 redis, toSend, wire, replies, store, prior, requests,
                 arrived, overlap, issued, executed, responses>>

\* the promise of pgClient.connect() rejects, or the established connection
\* breaks and the client emits 'error': neither is handled
PgError ==
  /\ proc = "running" /\ MainDone /\ pg \in {"connecting", "connected"}
  /\ pg' = "failed"
  /\ proc' = "crashed"
  /\ UNCHANGED <<env, pc, listening, startup, pgConfig, redisConfig, redis,
                 toSend, wire, replies, store, prior, requests, arrived,
                 overlap, issued, executed, responses>>

RedisConnected ==
  /\ proc = "running" /\ MainDone /\ redis = "connecting"
  /\ redis' = "ready"
  /\ UNCHANGED <<env, pc, proc, listening, startup, pgConfig, pg, redisConfig,
                 toSend, wire, replies, store, prior, requests, arrived,
                 overlap, issued, executed, responses>>

\* the cache cannot be reached, or the established connection is lost: the
\* client emits 'error', which has no listener
RedisError ==
  /\ proc = "running" /\ MainDone /\ redis \in {"connecting", "ready"}
  /\ redis' = "failed"
  /\ proc' = "crashed"
  /\ UNCHANGED <<env, pc, listening, startup, pgConfig, pg, redisConfig,
                 toSend, wire, replies, store, prior, requests, arrived,
                 overlap, issued, executed, responses>>

(* ----------------------------- requests ------------------------------- *)
InFlight == {r \in ReqIds : requests[r] = "pending"}

\* line 21-22: a request to GET / arrives; the handler calls
\* redisClient.incr("visits") and suspends on the await
Request ==
  /\ proc = "running" /\ MainDone /\ listening
  /\ arrived < MaxRequests
  /\ LET r == arrived + 1 IN
       /\ arrived' = r
       /\ requests' = [requests EXCEPT ![r] = "pending"]
       /\ overlap' = (overlap \/ InFlight # {})
       /\ toSend' = incr(toSend, CounterKey, r)
       /\ issued' = issued \o SubSeq(toSend', Len(toSend) + 1, Len(toSend'))
  /\ UNCHANGED <<env, pc, proc, listening, startup, pgConfig, pg, redisConfig,
                 redis, wire, replies, store, prior, executed, responses>>

\* the client writes its queued commands to the socket once it is ready
Flush ==
  /\ proc = "running" /\ redis = "ready" /\ toSend # << >>
  /\ wire' = wire \o toSend
  /\ toSend' = << >>
  /\ UNCHANGED <<env, pc, proc, listening, startup, pgConfig, pg, redisConfig,
                 redis, replies, store, prior, requests, arrived, overlap,
                 issued, executed, responses>>

\* the cache executes the oldest command it received, atomically
StoreExec ==
  /\ wire # << >>
  /\ LET c == Head(wire) IN
       /\ store' = INCR(store, c.key)
       /\ replies' = Append(replies, [req |-> c.req, value |-> store'[c.key]])
       /\ executed' = Append(executed, c.req)
  /\ wire' = Tail(wire)
  /\ UNCHANGED <<env, pc, proc, listening, startup, pgConfig, pg, redisConfig,
                 redis, toSend, prior, requests, arrived, overlap, issued,
                 responses>>

\* lines 22-23: the oldest reply arrives, the await resumes with its value
\* and the handler sends the response
Reply ==
  /\ proc = "running" /\ redis = "ready" /\ replies # << >>
  /\ LET m == Head(replies) IN
       /\ requests[m.req] = "pending"
       /\ responses' = Append(responses, Send(m.req, Template(m.value)))
       /\ requests' = [requests EXCEPT ![m.req] = "done"]
  /\ replies' = Tail(replies)
  /\ UNCHANGED <<env, pc, proc, listening, startup, pgConfig, pg, redisConfig,
                 redis, toSend, wire, store, prior, arrived, overlap, issued,
                 executed>>

\* the process is terminated from outside
Kill ==
  /\ proc = "running"
  /\ proc' = "killed"
  /\ UNCHANGED <<env, pc, listening, startup, pgConfig, pg, redisConfig, redis,
                 toSend, wire, replies, store, prior, requests, arrived,
                 overlap, issued, executed, responses>>

Next ==
  \/ PgStart
  \/ RedisStart
  \/ Listen
  \/ PgConnected
  \/ PgError
  \/ RedisConnected
  \/ RedisError
  \/ Request
  \/ Flush
  \/ StoreExec
  \/ Reply
  \/ Kill

Spec == Init /\ [][Next]_vars

\* The program's own steps and the cache's execution of a received command
\* are eventually taken; arrivals, connection outcomes and termination are
\* up to the environment.
FairSpec ==
  /\ Spec
  /\ WF_vars(PgStart) /\ WF_vars(RedisStart) /\ WF_vars(Listen)
  /\ WF_vars(Flush) /\ WF_vars(StoreExec) /\ WF_vars(Reply)

\* Construction of the two clients under every environment
ConfigInit ==
  /\ env \in [EnvNames -> UNION {EnvValues(n) : n \in EnvNames}]
  /\ \A n \in EnvNames : env[n] \in EnvValues(n)
  /\ InitCommon
  /\ prior = 0

ConfigNext == PgStart \/ RedisStart \/ Listen

ConfigSpec == ConfigInit /\ [][ConfigNext]_vars

(* ------------------------- reading a response ------------------------- *)
DigitValue(c) == CHOOSE d \in 0..9 : DigitChars[d + 1] = c

\* a non-empty run of decimal digits with no superfluous leading zero
IsDecimal(t) ==
  /\ Len(t) >= 1
  /\ \A i \in 1..Len(t) : \E d \in 0..9 : DigitChars[d + 1] = t[i]
  /\ (Len(t) > 1 => t[1] # "0")

RECURSIVE ParseInt(_)
ParseInt(t) ==
  IF t = << >> THEN 0
  ELSE 10 * ParseInt(SubSeq(t, 1, Len(t) - 1)) + DigitValue(t[Len(t)])

\* what follows the greeting in a body
Suffix(body) == SubSeq(body, Len(Greeting) + 1, Len(body))

HasGreeting(body) ==
  /\ Len(body) > Len(Greeting)
  /\ SubSeq(body, 1, Len(Greeting)) = Greeting

\* the counter value a client reads in a response
ReturnedValue(resp) == ParseInt(Suffix(resp.body))

\* position of request r's INCR among the increments the cache executed
ExecIndex(r) == CHOOSE i \in 1..Len(executed) : executed[i] = r

StoredVisits == IF CounterKey \in DOMAIN store THEN store[CounterKey] ELSE 0

AllAnswered == arrived >= 1 /\ \A r \in 1..arrived : requests[r] = "done"

TypeOK ==
  /\ pc \in 1..(Len(StartupSteps) + 1)
  /\ proc \in {"running", "crashed", "killed"}
  /\ pg \in {"idle", "connecting", "connected", "failed"}
  /\ redis \in {"idle", "connecting", "ready", "failed"}
  /\ arrived \in 0..MaxRequests

\* The client's single connection keeps the order of issue: increments are
\* executed, and responses sent, in the order the handlers ran.
IssueOrderKept ==
  /\ \A i \in 1..Len(executed) : executed[i] = i
  /\ \A i \in 1..Len(responses) : responses[i].req = i

(* ------------------------------- claims ------------------------------- *)

\* C1: from a fresh cache, requests issued one after another (none overlaps
\* another) are answered with 1, 2, ..., N in the order they were issued.
C1_Sequential ==
  (prior = 0 /\ ~overlap) =>
    \A i \in 1..Len(responses) :
      /\ responses[i].req = i
      /\ HasGreeting(responses[i].body)
      /\ IsDecimal(Suffix(responses[i].body))
      /\ ReturnedValue(responses[i]) = i

C1_Witness ==
  /\ prior = 0 /\ ~overlap
  /\ Len(responses) >= 3

\* C2: from a fresh cache, once all N requests of any interleaving have been
\* answered, the values returned are exactly 1..N, each to one request.
C2_Concurrent ==
  (prior = 0 /\ AllAnswered) =>
    /\ Len(responses) = arrived
    /\ {responses[i].req : i \in 1..Len(responses)} = 1..arrived
    /\ {ReturnedValue(responses[i]) : i \in 1..Len(responses)} = 1..arrived

C2_Witness ==
  /\ prior = 0 /\ overlap /\ AllAnswered
  /\ arrived >= 3

\* C3: the value returned to a request is the number of increments of
\* "visits" completed up to and including its own, and the stored counter
\* is exactly the number of increments executed: nothing resets, lowers or
\* otherwise writes it.
C3_CountsIncrements ==
  /\ StoredVisits = prior + Len(executed)
  /\ \A i \in 1..Len(executed) :
       \E j \in 1..Len(issued) : issued[j].req = executed[i]
  /\ \A i \in 1..Len(responses) :
       /\ \E j \in 1..Len(executed) : executed[j] = responses[i].req
       /\ ReturnedValue(responses[i]) = prior + ExecIndex(responses[i].req)

C3_Witness ==
  /\ prior = MaxPrior
  /\ Len(responses) >= 2
  /\ Len(executed) > Len(responses)

\* C4: every request whose handler has run caused exactly one INCR of
\* "visits" to be issued, so the number of increments issued equals the
\* number of requests handled.
C4_OneIncrementPerRequest ==
  /\ Len(issued) = arrived
  /\ \A j \in 1..Len(issued) :
       issued[j].op = "INCR" /\ issued[j].key = "visits"
  /\ \A r \in 1..arrived :
       Cardinality({j \in 1..Len(issued) : issued[j].req = r}) = 1

C4_Witness == arrived >= 2 /\ Len(executed) < arrived

\* the body of response i is the greeting followed by the decimal integer
\* that the request's own increment returned
OwnValueBody(i) ==
  /\ HasGreeting(responses[i].body)
  /\ IsDecimal(Suffix(responses[i].body))
  /\ \E j \in 1..Len(executed) : executed[j] = responses[i].req
  /\ ReturnedValue(responses[i]) = prior + ExecIndex(responses[i].req)

\* C5 (as stated): every response has status 200, is plain text, and its
\* body is the greeting followed by the request's own post-increment value.
C5_PlainText ==
  \A i \in 1..Len(responses) :
    /\ responses[i].status = 200
    /\ responses[i].type = "text/plain"
    /\ OwnValueBody(i)

\* C5 (amended): every response has status 200, is labelled text/html, and
\* its body is the greeting followed by the request's own post-increment
\* value, a decimal integer.
C5_Response ==
  \A i \in 1..Len(responses) :
    /\ responses[i].status = 200
    /\ responses[i].type = "text/html"
    /\ OwnValueBody(i)

C5_Witness ==
  /\ prior = MaxPrior
  /\ overlap
  /\ Len(responses) >= 2

\* C6: a request handled while the cache connection is not established is
\* eventually answered (unless the process is terminated from outside or
\* the relational connection fails).
C6_Answered ==
  \A r \in ReqIds :
    (requests[r] = "pending" /\ redis # "ready")
      ~> (requests[r] = "done" \/ proc = "killed" \/ pg = "failed")

\* C7: every connection parameter takes the configured override when one
\* is set (to a non-empty value) and the built-in default otherwise.
Configured(n, default) ==
  IF env[n] # << >> /\ env[n] # <<"">> THEN env[n][1] ELSE default

C7_Overridable ==
  /\ pgConfig # << >> =>
       /\ pgConfig[1].host = Configured("DB_HOST", "db")
       /\ pgConfig[1].user = Configured("DB_USER", "postgres")
       /\ pgConfig[1].password = Configured("DB_PASSWORD", "password")
       /\ pgConfig[1].database = Configured("DB_NAME", "postgres")
  /\ redisConfig # << >> =>
       redisConfig[1].url = Configured("REDIS_URL", "redis://cache:6379")

\* C8: the process never exits on its own, whatever the outcome of the
\* connection attempts and of the cache calls.
C8_NeverExits == proc # "crashed"

\* C9: the startup steps are taken in the order relational connect, cache
\* connect, listen; listening never precedes either connection attempt and
\* does not depend on their outcome.
C9_StartupOrder ==
  /\ \E n \in 0..3 :
       startup = SubSeq(<<"pgClient.connect", "redisClient.connect",
                          "app.listen">>, 1, n)
  /\ listening => (pgConfig # << >> /\ redisConfig # << >>)
  /\ listening => (pg # "idle" /\ redis # "idle")
  /\ (pg = "idle" => redis = "idle")

\* a request is being handled while neither connection is established
C9_Witness ==
  /\ listening
  /\ InFlight # {}
  /\ pg = "connecting"
  /\ redis = "connecting"
====
